---- MODULE Spec2Model ----
(***************************************************************************)
(* Model of create_structure.py: parse_structure_file (the tree parser)    *)
(* and create_structure (the filesystem materializer).                     *)
(*                                                                         *)
(* A text line is a sequence of characters.  The characters the code       *)
(* treats specially are modelled one by one: the four box-drawing glyphs   *)
(* (written by their code points, the module being ASCII), space, tab,     *)
(* "-", "#", "/" and U+0060.  Any other string of the alphabet       *)
(* ("myproject", "README.md", ...) stands for a non-empty run of ordinary  *)
(* characters, none of which the parser looks at individually.             *)
(***************************************************************************)
EXTENDS Naturals, Sequences, FiniteSets, TLC

VARIABLES lines, i, pc, current_path, paths, emitted,
          entries, denied, fs, k, run, fpc, created, attempts, firstRun

pvars == <<lines, i, pc, current_path, paths, emitted>>
fvars == <<entries, denied, fs, k, run, fpc, created, attempts, firstRun>>
vars == <<lines, i, pc, current_path, paths, emitted,
          entries, denied, fs, k, run, fpc, created, attempts, firstRun>>

(***************************************************************************)
(* Characters                                                              *)
(***************************************************************************)
VERT == "U+2502"
TEE == "U+251C"
CORNER == "U+2514"
HORIZ == "U+2500"
SP == " "
TAB == "\t"
DASH == "-"
HASH == "#"
SLASH == "/"
TICK == "U+0060"

\* the class [U+2502 U+251C U+2514 U+2500] of the regular expression
Glyphs == {VERT, TEE, CORNER, HORIZ}

\* \s and the characters str.strip()/rstrip() remove
Whitespace == {SP, TAB}

Min(a, b) == IF a < b THEN a ELSE b

(***************************************************************************)
(* String helpers, as Python computes them                                 *)
(***************************************************************************)
\* set(line)
CharSet(s) == {s[j] : j \in DOMAIN s}

\* str.rstrip()
RECURSIVE RStrip(_)
RStrip(s) ==
  IF s # <<>> /\ s[Len(s)] \in Whitespace
  THEN RStrip(SubSeq(s, 1, Len(s) - 1))
  ELSE s

\* str.lstrip()
RECURSIVE LStrip(_)
LStrip(s) ==
  IF s # <<>> /\ s[1] \in Whitespace THEN LStrip(Tail(s)) ELSE s

\* str.strip()
Strip(s) == LStrip(RStrip(s))

\* str.count(c)
RECURSIVE Count(_, _)
Count(s, c) ==
  IF s = <<>> THEN 0
  ELSE (IF s[1] = c THEN 1 ELSE 0) + Count(Tail(s), c)

\* str.replace(c, '')
RECURSIVE Remove(_, _)
Remove(s, c) ==
  IF s = <<>> THEN <<>>
  ELSE IF s[1] = c THEN Remove(Tail(s), c)
  ELSE <<s[1]>> \o Remove(Tail(s), c)

\* str.split('#')[0]
RECURSIVE BeforeHash(_)
BeforeHash(s) ==
  IF s = <<>> \/ s[1] = HASH THEN <<>>
  ELSE <<s[1]>> \o BeforeHash(Tail(s))

\* line.startswith(fence), the fence being three U+0060 characters
StartsWithFence(s) ==
  Len(s) >= 3 /\ s[1] = TICK /\ s[2] = TICK /\ s[3] = TICK

\* item.endswith('/')
EndsWithSlash(s) == s # <<>> /\ s[Len(s)] = SLASH

\* '/'.join(segments)
RECURSIVE Join(_)
Join(segs) ==
  IF segs = <<>> THEN <<>>
  ELSE IF Len(segs) = 1 THEN segs[1]
  ELSE segs[1] \o <<SLASH>> \o Join(Tail(segs))

(***************************************************************************)
(* One iteration of the loop of parse_structure_file                       *)
(***************************************************************************)
\* the condition of the continue at the top of the loop, on the
\* right-stripped line
Skipped(line) ==
  \/ line = <<>>
  \/ CharSet(line) = {DASH, SP}
  \/ StartsWithFence(line)

\* lengths of group 1 over all ways ^([glyph|\s]*)([^glyph].*)$ can match
TreeCuts(line) ==
  {n \in 0..(Len(line) - 1) :
     /\ \A j \in 1..n : line[j] \in Glyphs \cup Whitespace
     /\ line[n + 1] \notin Glyphs}

Max(S) == CHOOSE n \in S : \A m \in S : m <= n

\* length of the leading whitespace run: group 1 of ^(\s*)(.*)$
RECURSIVE LeadingSpaces(_)
LeadingSpaces(s) ==
  IF s # <<>> /\ s[1] \in Whitespace THEN 1 + LeadingSpaces(Tail(s)) ELSE 0

\* length of indent_part: the greedy group 1 of the first expression, or,
\* when it does not match, group 1 of the second
IndentLen(line) ==
  IF TreeCuts(line) # {} THEN Max(TreeCuts(line)) ELSE LeadingSpaces(line)

IndentPart(line) == SubSeq(line, 1, IndentLen(line))

\* item before comment removal: group(2).strip()
RawItem(line) == Strip(SubSeq(line, IndentLen(line) + 1, Len(line)))

\* a depth that halves the whitespace and leaves the glyphs uncounted
DepthOfWhitespace(indent_part) ==
  Len(Remove(Remove(Remove(Remove(indent_part, VERT), TEE), CORNER), HORIZ)) \div 2

\* depth = glyph counts + len(indent_part without glyphs) // 2
Depth(indent_part) ==
  Count(indent_part, VERT) + Count(indent_part, TEE)
    + Count(indent_part, CORNER) + Count(indent_part, HORIZ)
    + (Len(Remove(Remove(Remove(Remove(indent_part, VERT), TEE), CORNER), HORIZ)) \div 2)

LineDepth(line) == Depth(IndentPart(line))

\* popping stops one element early
PoppedToDepthPlusOne(cp, depth) == SubSeq(cp, 1, Min(Len(cp), depth + 1))

\* pop(0) in place of pop(): the oldest elements are removed
PoppedFromFront(cp, depth) ==
  SubSeq(cp, Len(cp) - Min(Len(cp), depth) + 1, Len(cp))

\* no popping at all
PoppedNever(cp, depth) == cp

\* the stack after while len(current_path) > depth: current_path.pop()
PoppedPath(cp, depth) == SubSeq(cp, 1, Min(Len(cp), depth))

\* item.split('#')[0].strip()
Item(line) == Strip(BeforeHash(RawItem(line)))

\* item[:-1]
DirName(item) == SubSeq(item, 1, Len(item) - 1)

(***************************************************************************)
(* Inputs of the parser                                                    *)
(***************************************************************************)
MaxLines == 3

EmptyLine == <<>>
BlankLine == <<SP, TAB>>
DashRule == <<DASH, DASH, DASH>>
SpacedRule == <<SP, DASH, SP, DASH, SP>>
FenceLine == <<TICK, TICK, TICK, "text">>
NoteLine == <<HASH, SP, "note">>
DeepNoteLine == <<SP, SP, SP, SP, HASH, "note">>
DirA == <<"a", SLASH>>
DirB1 == <<SP, SP, "b", SLASH>>
DirD2 == <<SP, SP, SP, SP, "d", SLASH>>
FileC1 == <<SP, SP, "c.py">>
FileCommented == <<"c.py", SP, HASH, "x">>
TreeDir == <<TEE, HORIZ, HORIZ, SP, "src", SLASH>>
TreeFile == <<VERT, SP, SP, SP, CORNER, HORIZ, HORIZ, SP, "main.py">>
GlyphsOnly == <<TEE, HORIZ, HORIZ>>
SlashOnly == <<SLASH>>
DoubleSlash == <<"a", SLASH, SLASH>>

LineSet ==
  {EmptyLine, BlankLine, DashRule, SpacedRule, FenceLine, NoteLine,
   DeepNoteLine, DirA, DirB1, DirD2, FileC1, FileCommented, TreeDir,
   TreeFile, GlyphsOnly, SlashOnly, DoubleSlash}

\* the round-trip scenario
RoundTripInput ==
  << <<"myproject", SLASH>>,
     <<TEE, HORIZ, HORIZ, SP, "README.md">>,
     <<TEE, HORIZ, HORIZ, SP, "src", SLASH>>,
     <<VERT, SP, SP, SP, CORNER, HORIZ, HORIZ, SP, "main.py">> >>

\* the sibling-after-a-deeper-branch scenario
SiblingInput ==
  << <<"a", SLASH>>, <<SP, SP, "b", SLASH>>, <<SP, SP, "c.py">>, <<"d", SLASH>> >>

\* three lines of the text of create_template: the root and its first two
\* sub-directories
TemplateInput ==
  << <<"myproject", SLASH>>,
     <<TEE, HORIZ, HORIZ, SP, "src", SLASH>>,
     <<TEE, HORIZ, HORIZ, SP, "tests", SLASH>> >>

InputFiles ==
  UNION {[1..n -> LineSet] : n \in 0..MaxLines}
    \cup {RoundTripInput, SiblingInput, TemplateInput}

(***************************************************************************)
(* parse_structure_file                                                    *)
(***************************************************************************)
\* emitted keeps, for every entry of paths, the depth computed for its line
\* and the segments that were joined into its path
ParseInit ==
  /\ lines \in InputFiles
  /\ i = 1
  /\ pc = "loop"
  /\ current_path = <<>>
  /\ paths = <<>>
  /\ emitted = <<>>

\* the line of this iteration, after line.rstrip()
Cur == RStrip(lines[i])

InLoop == pc = "loop" /\ i <= Len(lines)

\* empty line, separator or fence: continue
SkipLine ==
  /\ InLoop
  /\ Skipped(Cur)
  /\ i' = i + 1
  /\ UNCHANGED <<lines, pc, current_path, paths, emitted>>

\* nothing left of the item after comment removal: the stack has already
\* been popped to the line's depth when the loop continues
SkipEmptyItem ==
  /\ InLoop
  /\ ~Skipped(Cur)
  /\ Item(Cur) = <<>>
  /\ current_path' = PoppedPath(current_path, LineDepth(Cur))
  /\ i' = i + 1
  /\ UNCHANGED <<lines, pc, paths, emitted>>

\* item ends with '/': push the name and append the directory entry
AppendDir ==
  /\ InLoop
  /\ ~Skipped(Cur)
  /\ Item(Cur) # <<>>
  /\ EndsWithSlash(Item(Cur))
  /\ current_path' =
       Append(PoppedPath(current_path, LineDepth(Cur)), DirName(Item(Cur)))
  /\ paths' = Append(paths, <<Join(current_path'), "dir">>)
  /\ emitted' = Append(emitted,
       [depth |-> LineDepth(Cur), segs |-> current_path'])
  /\ i' = i + 1
  /\ UNCHANGED <<lines, pc>>

\* otherwise a file: append stack + [item], the stack keeps its popped state
AppendFile ==
  /\ InLoop
  /\ ~Skipped(Cur)
  /\ Item(Cur) # <<>>
  /\ ~EndsWithSlash(Item(Cur))
  /\ current_path' = PoppedPath(current_path, LineDepth(Cur))
  /\ paths' = Append(paths, <<Join(Append(current_path', Item(Cur))), "file">>)
  /\ emitted' = Append(emitted,
       [depth |-> LineDepth(Cur), segs |-> Append(current_path', Item(Cur))])
  /\ i' = i + 1
  /\ UNCHANGED <<lines, pc>>

\* return paths
ParseReturn ==
  /\ pc = "loop"
  /\ i > Len(lines)
  /\ pc' = "done"
  /\ UNCHANGED <<lines, i, current_path, paths, emitted>>

(***************************************************************************)
(* create_structure.  A relative path is the sequence of its parts under   *)
(* base_dir, which exists and is a directory.  fs maps every path to what  *)
(* is there: nothing, a directory, or a file with its content and the      *)
(* number of times it was written (touch included).  denied is the set of  *)
(* paths the operating system refuses to create (permissions, invalid      *)
(* name): os.mkdir and touch of such a path raise.                         *)
(***************************************************************************)
MaxEntries == 2

Names == {"src", "__init__.py"}

Paths == {<<n>> : n \in Names} \cup {<<n, m>> : n \in Names, m \in Names}

EntryLists == UNION {[1..n -> Paths \X {"dir", "file"}] : n \in 0..MaxEntries}

DeniedChoices == {{}} \cup {{p} : p \in Paths}

Absent == [kind |-> "none"]
Directory == [kind |-> "dir"]

\* full_path.parent
Parent(p) == SubSeq(p, 1, Len(p) - 1)

\* full_path.name
Name(p) == p[Len(p)]

\* Path.is_dir(); base_dir itself is a directory
IsDir(f, p) == p = <<>> \/ f[p].kind = "dir"

\* the check of existence left out
ExistsNever(f, p) == FALSE

\* Path.exists()
Exists(f, p) == p = <<>> \/ f[p].kind # "none"

\* Path.mkdir(parents=True, exist_ok=True): the outcome and the filesystem
\* it leaves (missing ancestors are created first and stay when a later
\* os.mkdir raises)
RECURSIVE MkdirP(_, _, _)
MkdirP(f, d, p) ==
  IF IsDir(f, p) THEN [ok |-> TRUE, fs |-> f]
  ELSE IF f[p].kind # "none" THEN [ok |-> FALSE, fs |-> f]
  ELSE LET up == MkdirP(f, d, Parent(p)) IN
       IF ~up.ok \/ p \in d THEN [ok |-> FALSE, fs |-> up.fs]
       ELSE [ok |-> TRUE, fs |-> [up.fs EXCEPT ![p] = Directory]]

\* the canned content written for the well-known file names
HasDefault(name) ==
  name \in {"__init__.py", "settings.json", "requirements.txt", "README.md",
            ".gitignore"}

DefaultContent(name) == <<"default content of", name>>

\* number of writes the file at p has seen so far
Writes(f, p) == IF f[p].kind = "file" THEN f[p].writes ELSE 0

\* touch(), then open(full_path, 'w') and write for a well-known name
Touched(f, p) ==
  IF HasDefault(Name(p))
  THEN [f EXCEPT ![p] = [kind |-> "file", content |-> DefaultContent(Name(p)),
                         writes |-> Writes(f, p) + 2]]
  ELSE [f EXCEPT ![p] = [kind |-> "file", content |-> "",
                         writes |-> Writes(f, p) + 1]]

\* the exception leaves the loop
AbortAfterFailure(n) == Len(entries) + 1

\* the loop goes on with the next entry after an except clause
AfterFailure(n) == n + 1

\* attempts keeps the outcome of every entry of the current run, firstRun
\* the filesystem and the outcomes the first run ended with
FsInit ==
  /\ entries \in EntryLists
  /\ denied \in DeniedChoices
  /\ fs = [p \in Paths |-> Absent]
  /\ k = 1
  /\ run = 1
  /\ fpc = "loop"
  /\ created = [dirs |-> <<>>, files |-> <<>>]
  /\ attempts = <<>>
  /\ firstRun = [fs |-> [p \in Paths |-> Absent], attempts |-> <<>>]

InEntries == fpc = "loop" /\ k <= Len(entries)

EntryPath == entries[k][1]

EntryType == entries[k][2]

\* item_type == 'dir', mkdir succeeds
MakeDir ==
  /\ InEntries
  /\ EntryType = "dir"
  /\ MkdirP(fs, denied, EntryPath).ok
  /\ fs' = MkdirP(fs, denied, EntryPath).fs
  /\ created' = [created EXCEPT !.dirs = Append(@, EntryPath)]
  /\ attempts' = Append(attempts, [entry |-> k, ok |-> TRUE])
  /\ k' = k + 1
  /\ UNCHANGED <<entries, denied, run, fpc, firstRun>>

\* item_type == 'dir', mkdir raises: except Exception, print, next entry
MakeDirFails ==
  /\ InEntries
  /\ EntryType = "dir"
  /\ ~MkdirP(fs, denied, EntryPath).ok
  /\ fs' = MkdirP(fs, denied, EntryPath).fs
  /\ attempts' = Append(attempts, [entry |-> k, ok |-> FALSE])
  /\ k' = AfterFailure(k)
  /\ UNCHANGED <<entries, denied, run, fpc, created, firstRun>>

\* item_type == 'file', the file is absent: touch and default content
MakeFile ==
  /\ InEntries
  /\ EntryType = "file"
  /\ MkdirP(fs, denied, Parent(EntryPath)).ok
  /\ ~Exists(MkdirP(fs, denied, Parent(EntryPath)).fs, EntryPath)
  /\ EntryPath \notin denied
  /\ fs' = Touched(MkdirP(fs, denied, Parent(EntryPath)).fs, EntryPath)
  /\ created' = [created EXCEPT !.files = Append(@, EntryPath)]
  /\ attempts' = Append(attempts, [entry |-> k, ok |-> TRUE])
  /\ k' = k + 1
  /\ UNCHANGED <<entries, denied, run, fpc, firstRun>>

\* item_type == 'file', full_path.exists(): nothing is written, the path is
\* recorded all the same
KeepFile ==
  /\ InEntries
  /\ EntryType = "file"
  /\ MkdirP(fs, denied, Parent(EntryPath)).ok
  /\ Exists(MkdirP(fs, denied, Parent(EntryPath)).fs, EntryPath)
  /\ fs' = MkdirP(fs, denied, Parent(EntryPath)).fs
  /\ created' = [created EXCEPT !.files = Append(@, EntryPath)]
  /\ attempts' = Append(attempts, [entry |-> k, ok |-> TRUE])
  /\ k' = k + 1
  /\ UNCHANGED <<entries, denied, run, fpc, firstRun>>

\* item_type == 'file', the parent's mkdir or touch raises
MakeFileFails ==
  /\ InEntries
  /\ EntryType = "file"
  /\ \/ ~MkdirP(fs, denied, Parent(EntryPath)).ok
     \/ /\ ~Exists(MkdirP(fs, denied, Parent(EntryPath)).fs, EntryPath)
        /\ EntryPath \in denied
  /\ fs' = MkdirP(fs, denied, Parent(EntryPath)).fs
  /\ attempts' = Append(attempts, [entry |-> k, ok |-> FALSE])
  /\ k' = AfterFailure(k)
  /\ UNCHANGED <<entries, denied, run, fpc, created, firstRun>>

\* return created
FsReturn ==
  /\ fpc = "loop"
  /\ k > Len(entries)
  /\ fpc' = "returned"
  /\ UNCHANGED <<entries, denied, fs, k, run, created, attempts, firstRun>>

\* the same list is materialized again against the same base directory
SecondRun ==
  /\ fpc = "returned"
  /\ run = 1
  /\ run' = 2
  /\ fpc' = "loop"
  /\ k' = 1
  /\ created' = [dirs |-> <<>>, files |-> <<>>]
  /\ attempts' = <<>>
  /\ firstRun' = [fs |-> fs, attempts |-> attempts]
  /\ UNCHANGED <<entries, denied, fs>>

FsIdle ==
  /\ entries = <<>>
  /\ denied = {}
  /\ fs = [p \in Paths |-> Absent]
  /\ k = 1
  /\ run = 1
  /\ fpc = "idle"
  /\ created = [dirs |-> <<>>, files |-> <<>>]
  /\ attempts = <<>>
  /\ firstRun = [fs |-> [p \in Paths |-> Absent], attempts |-> <<>>]

ParseIdle ==
  /\ lines = <<>>
  /\ i = 1
  /\ pc = "idle"
  /\ current_path = <<>>
  /\ paths = <<>>
  /\ emitted = <<>>

Init == ParseInit /\ FsIdle

Next ==
  \/ SkipLine /\ UNCHANGED fvars
  \/ SkipEmptyItem /\ UNCHANGED fvars
  \/ AppendDir /\ UNCHANGED fvars
  \/ AppendFile /\ UNCHANGED fvars
  \/ ParseReturn /\ UNCHANGED fvars

Spec == Init /\ [][Next]_vars

InitFS == ParseIdle /\ FsInit

NextFS ==
  \/ MakeDir /\ UNCHANGED pvars
  \/ MakeDirFails /\ UNCHANGED pvars
  \/ MakeFile /\ UNCHANGED pvars
  \/ KeepFile /\ UNCHANGED pvars
  \/ MakeFileFails /\ UNCHANGED pvars
  \/ FsReturn /\ UNCHANGED pvars
  \/ SecondRun /\ UNCHANGED pvars

SpecFS == InitFS /\ [][NextFS]_vars

(***************************************************************************)
(* Properties of parse_structure_file                                      *)
(***************************************************************************)
Returned == pc = "done"

\* path.split('/')
RECURSIVE Components(_)
Components(s) ==
  IF \A j \in DOMAIN s : s[j] # SLASH THEN <<s>>
  ELSE LET n == CHOOSE j \in DOMAIN s :
                  s[j] = SLASH /\ \A m \in 1..(j - 1) : s[m] # SLASH
       IN <<SubSeq(s, 1, n - 1)>> \o Components(SubSeq(s, n + 1, Len(s)))

IsProperPrefix(a, b) == Len(a) < Len(b) /\ SubSeq(b, 1, Len(a)) = a

DirEntries == {n \in DOMAIN paths : paths[n][2] = "dir"}

LastDir == Max(DirEntries)

RoundTripExpected ==
  << << <<"myproject">>, "dir" >>,
     << <<"myproject", SLASH, "README.md">>, "file" >>,
     << <<"myproject", SLASH, "src">>, "dir" >>,
     << <<"myproject", SLASH, "src", SLASH, "main.py">>, "file" >> >>

\* C1: the round-trip input yields exactly (myproject, dir),
\* (myproject/README.md, file), (myproject/src, dir),
\* (myproject/src/main.py, file), in this order.
C1_RoundTrip == (Returned /\ lines = RoundTripInput) => paths = RoundTripExpected

C1_Witness == Returned /\ lines = RoundTripInput /\ Len(paths) = 4

\* C2, as claimed: a/, "  b/", "  c.py", d/ yields (a,dir), (a/b,dir),
\* (a/b/c.py,file), (d,dir).
C2_FileUnderDeeperBranch ==
  (Returned /\ lines = SiblingInput) =>
    paths = << << <<"a">>, "dir" >>,
               << <<"a", SLASH, "b">>, "dir" >>,
               << <<"a", SLASH, "b", SLASH, "c.py">>, "file" >>,
               << <<"d">>, "dir" >> >>

\* C2, amended: a/, "  b/", "  c.py", d/ yields (a,dir), (a/b,dir),
\* (a/c.py,file), (d,dir): c.py, at the depth of b, is a sibling of b, and
\* d is a top-level directory.
C2_FileBesideSibling ==
  (Returned /\ lines = SiblingInput) =>
    paths = << << <<"a">>, "dir" >>,
               << <<"a", SLASH, "b">>, "dir" >>,
               << <<"a", SLASH, "c.py">>, "file" >>,
               << <<"d">>, "dir" >> >>

C2_Witness ==
  /\ Returned
  /\ lines = SiblingInput
  /\ current_path = << <<"d">> >>

\* a line the claim C3 calls discarded: empty, made of "-" and spaces only
\* (dashes alone included), or starting with the fence
Editorial(line) ==
  \/ line = <<>>
  \/ CharSet(line) \subseteq {DASH, SP}
  \/ StartsWithFence(line)

\* C3: a line that, right-stripped, is empty, consists only of "-" and
\* space characters, or starts with the fence appends no entry and leaves
\* current_path as it was.
C3_EditorialLineDiscarded ==
  [][(InLoop /\ Editorial(Cur) /\ i' = i + 1) =>
       (paths' = paths /\ current_path' = current_path)]_vars

\* C4: for every entry whose path has more than one segment, a directory
\* entry for the path without its last segment appears earlier in the list.
C4_DirectoryPrecedesNested ==
  \A n \in DOMAIN emitted :
    Len(emitted[n].segs) > 1 =>
      \E m \in 1..(n - 1) :
        paths[m] = <<Join(SubSeq(emitted[n].segs, 1, Len(emitted[n].segs) - 1)), "dir">>

C4_Witness ==
  \E n \in DOMAIN emitted :
    /\ Len(emitted[n].segs) > 2
    /\ paths[n][2] = "file"

\* C5: every "/"-separated component of every emitted path is non-empty.
C5_NoEmptyComponent ==
  \A n \in DOMAIN paths :
    \A c \in DOMAIN Components(paths[n][1]) : Components(paths[n][1])[c] # <<>>

\* C8: of two entry-emitting lines with the same computed depth, the earlier
\* one a directory line, the later one's path is never nested under the
\* earlier one's.
C8_SiblingsNotNested ==
  \A m \in DOMAIN emitted : \A n \in DOMAIN emitted :
    (m < n /\ emitted[m].depth = emitted[n].depth /\ paths[m][2] = "dir") =>
      ~IsProperPrefix(emitted[m].segs, emitted[n].segs)

\* C9, as claimed: the stack is empty while no entry has been emitted, and
\* otherwise its length is the depth of the most recently emitted directory
\* entry plus one.
C9_StackLengthIsLastDirDepthPlusOne ==
  /\ paths = <<>> => Len(current_path) = 0
  /\ DirEntries # {} => Len(current_path) = emitted[LastDir].depth + 1

\* C9, amended: the stack is empty while no directory entry has been
\* emitted, and otherwise its length is at most the depth of the most
\* recently emitted directory entry plus one.
C9_StackLengthAtMostLastDirDepthPlusOne ==
  /\ DirEntries = {} => Len(current_path) = 0
  /\ DirEntries # {} => Len(current_path) <= emitted[LastDir].depth + 1

C9_Witness ==
  /\ DirEntries # {}
  /\ emitted[LastDir].depth > 0
  /\ Len(current_path) > 0
  /\ Len(current_path) < emitted[LastDir].depth + 1

\* C10: a line whose item is empty after comment removal appends no entry
\* and leaves current_path as it was.
C10_CommentLineLeavesStack ==
  [][(InLoop /\ ~Skipped(Cur) /\ Item(Cur) = <<>> /\ i' = i + 1) =>
       (paths' = paths /\ current_path' = current_path)]_vars

(***************************************************************************)
(* Properties of create_structure                                          *)
(***************************************************************************)
AllRunsReturned == fpc = "returned" /\ run = 2

\* the paths create_structure records for the first n entries, by type
RECURSIVE Recorded(_, _)
Recorded(n, type) ==
  IF n = 0 THEN <<>>
  ELSE IF attempts[n].ok /\ entries[n][2] = type
       THEN Append(Recorded(n - 1, type), entries[n][1])
       ELSE Recorded(n - 1, type)

C7_FailureDoesNotAbort ==
  /\ \A j \in DOMAIN attempts : attempts[j].entry = j
  /\ fpc = "loop" => Len(attempts) = k - 1 /\ k <= Len(entries) + 1
  /\ fpc = "returned" => Len(attempts) = Len(entries)
  /\ fpc = "loop" => ENABLED NextFS
  /\ created.dirs = Recorded(Len(attempts), "dir")
  /\ created.files = Recorded(Len(attempts), "file")

C7_Witness ==
  /\ fpc = "returned"
  /\ \E a \in DOMAIN attempts : \E b \in DOMAIN attempts :
       a < b /\ ~attempts[a].ok /\ attempts[b].ok
  /\ Len(created.dirs) + Len(created.files) < Len(entries)

====
